---- MODULE Spec2Model ----
(***************************************************************************)
(* Collector route screen of wctsystem-mobile                              *)
(* (src/src/screens/CollectorRouteScreen.tsx) together with the two REST   *)
(* calls it uses (src/unnamed/part_005: getScheduleById,                   *)
(* updateScheduleStatus).                                                  *)
(*                                                                         *)
(* The React state of the screen is one variable per useState hook.  The   *)
(* handlers of a render close over the values of that render, so the       *)
(* values the last render saw are kept in `view`; a handler reads `view`   *)
(* where the code reads a closure value and the state variable where the   *)
(* code uses a functional updater.  Stop indices are 0-based as in the     *)
(* code; the bin at index i of binSequence has _id i.  The screen reads    *)
(* only the length of the completedStops array and whether an id is in it, *)
(* so the array is kept as a bag of ids.  selectedBin only highlights a    *)
(* list item and is left out.                                              *)
(***************************************************************************)
EXTENDS Integers, Sequences, FiniteSets, Bags, TLC

\* ---------------------------------------------------------------- bounds
MaxStops == 2       \* longest binSequence a fetched schedule has
MaxCalls == 2       \* REST calls of the screen in flight at the same time
MaxCompleted == 3   \* most entries of completedStops that are explored
MaxBurst == 2       \* presses handled before the screen re-renders
MaxRoute == 3       \* longest route polyline the segment inputs range over
MaxCoord == 1       \* largest latitude the segment inputs range over

\* ------------------------------------------------------------- data types
Statuses == {"scheduled", "in-progress", "completed", "cancelled"}

\* useState<Schedule | null>(null): loaded = FALSE is the null schedule.
\* populated: binSequence holds Bin objects (TRUE) or bare id strings.
NoSchedule == [loaded |-> FALSE, status |-> "scheduled", populated |-> FALSE]

\* Session state a call's handler saw when it was pressed (history only;
\* completedStops, which handleStartCollection empties, is not recorded).
NoPre == [activeCollection |-> FALSE, currentStopIndex |-> 0,
          allBinsCollected |-> FALSE, schedule |-> NoSchedule]

\* completedBins the backend may report for a schedule of n stops: the
\* stops collected so far, in route order.
CollectedPrefixes(n) == { [i \in 1..k |-> i - 1] : k \in 0..n }

\* The ids of an array as a bag.
BagOfArray(q) ==
  [x \in {q[j] : j \in DOMAIN q} |-> Cardinality({j \in DOMAIN q : q[j] = x})]

\* --------------------------------------------------------------- geometry
\* A [longitude, latitude] pair as the backend sends it.
Coords == (0..1) \X (0..MaxCoord)

\* Schedule.route values: polylines of 1..MaxRoute points.
Routes == UNION { [1..k -> Coords] : k \in 1..MaxRoute }

\* The geometry of a schedule of n stops on a straight road: the depot at
\* [0,0], stop i at [0,i+1], the offload facility one step after the last
\* stop, and a route with one point for each of them.
StraightRoad(n) ==
  [route |-> [k \in 1..(n + 2) |-> << 0, k - 1 >>],
   bins |-> [i \in 1..n |-> << 0, i >>],
   startLocation |-> << 0, 0 >>,
   endLocation |-> << 0, n + 1 >>]

\* point => ({ latitude: point[1], longitude: point[0] })
LatLng(point) == [latitude |-> point[2], longitude |-> point[1]]

\* schedule.route.map(point => ...)
fullCoords(route) == [k \in 1..Len(route) |-> LatLng(route[k])]

\* (pt[0] - coords[0]) ** 2 + (pt[1] - coords[1]) ** 2
Dist2(pt, coords) ==
  (pt[1] - coords[1]) * (pt[1] - coords[1])
  + (pt[2] - coords[2]) * (pt[2] - coords[2])

\* Variant: `d <= minDist`, the last of several nearest points wins.
CloserOrEqual(d, best) == best.infinite \/ d <= best.minDist

\* if (d < minDist), with minDist = Infinity before the first point.
Closer(d, best) == best.infinite \/ d < best.minDist

\* schedule.route.forEach((pt, i) => {...}) from (1-based) point i on;
\* bestIdx is the 0-based index of the code.
RECURSIVE forEachPoint(_, _, _, _)
forEachPoint(route, coords, i, best) ==
  IF i > Len(route)
  THEN best
  ELSE LET d == Dist2(route[i], coords)
       IN forEachPoint(route, coords, i + 1,
                       IF Closer(d, best)
                       THEN [bestIdx |-> i - 1, minDist |-> d,
                             infinite |-> FALSE]
                       ELSE best)

\* let bestIdx = -1; let minDist = Infinity; ...; return bestIdx
findClosestIndex(route, coords) ==
  forEachPoint(route, coords, 1,
               [bestIdx |-> 0 - 1, minDist |-> 0, infinite |-> TRUE]).bestIdx

\* Array.prototype.slice(from, to) for 0 <= from: the elements with
\* 0-based index in [from, to).
slice(arr, from, to) ==
  SubSeq(arr, from + 1, IF to < Len(arr) THEN to ELSE Len(arr))

VARIABLES
  token,             \* useCollectorAuth().token is set
  numStops,          \* binSequence.length of the schedule on the backend
  geo,               \* its route, bin locations and depot locations
  remoteStatus,      \* status of the schedule on the backend
  calls,             \* REST calls of this screen that have not been consumed
  loading,           \* useState(true)
  schedule,          \* useState<Schedule | null>(null)
  currentStopIndex,  \* useState<number>(0)
  completedStops,    \* useState<string[]>([])
  allBinsCollected,  \* useState<boolean>(false)
  activeCollection,  \* useState<boolean>(false)
  view,              \* the state values the last render closed over
  alert,             \* the Alert.alert dialog on screen, "none" without one
  presses,           \* presses handled since the last render
  crashed            \* a render threw

vars == << token, numStops, geo, remoteStatus, calls, loading, schedule,
           currentStopIndex, completedStops, allBinsCollected,
           activeCollection, view, alert, presses, crashed >>

session == << currentStopIndex, completedStops, allBinsCollected,
              activeCollection >>

backend == << token, numStops, geo, remoteStatus >>

\* ------------------------------------------------------------ rendering
CurrentView ==
  [loading |-> loading, schedule |-> schedule,
   currentStopIndex |-> currentStopIndex,
   completedStops |-> completedStops,
   allBinsCollected |-> allBinsCollected,
   activeCollection |-> activeCollection]

\* No state update is waiting for a render.
ViewClean == view = CurrentView

\* React renders the updates of a press before the JS thread goes back to
\* the event loop, so an await resumes on a rendered screen.
Idle == ViewClean /\ presses = 0

\* An Alert.alert dialog is modal: the screen takes no press under it.
\* Presses of one event batch run before the render they cause.
Pressable == alert = "none" /\ presses < MaxBurst

\* The screen body (map, cards, FAB) is rendered: neither the spinner nor
\* the "Schedule not found" view.
ScreenShown == ~crashed /\ ~view.loading /\ view.schedule.loaded

\* mapRef.current: the MapView of the screen body is mounted.
MapRefCurrent == ~view.loading /\ view.schedule.loaded

\* The segment useMemo runs on every render: schedule.binSequence[
\* currentStopIndex] is undefined when the index is past the end, and
\* `!currentBin.location` then throws.
RenderThrows ==
  /\ schedule.loaded
  /\ currentStopIndex >= numStops

\* Variant: once all bins are collected the depot end is looked up.
currentIdxOrDepotEnd(idx) ==
  IF allBinsCollected
  THEN findClosestIndex(geo.route, geo.endLocation)
  ELSE findClosestIndex(geo.route, geo.bins[idx + 1])

\* const currentIdx = findClosestIndex(currentBin.location.coordinates)
currentIdx(idx) == findClosestIndex(geo.route, geo.bins[idx + 1])

\* Variant: on the first stop the depot start is looked up.
prevIdxOrDepotStart(idx) ==
  IF idx > 0
  THEN findClosestIndex(geo.route, geo.bins[idx])
  ELSE findClosestIndex(geo.route, geo.startLocation)

\* let prevIdx = 0; if (currentStopIndex > 0) { prevIdx = findClosestIndex(
\* prevBin.location.coordinates) }
prevIdx(idx) ==
  IF idx > 0 THEN findClosestIndex(geo.route, geo.bins[idx]) ELSE 0

\* Variant: the future segment starts after the current bin.
SegmentsWithoutPivot(sched, idx) ==
  IF ~sched.loaded
  THEN [activeSegmentCoords |-> << >>, futureSegmentCoords |-> << >>]
  ELSE IF ~sched.populated
  THEN [activeSegmentCoords |-> fullCoords(geo.route),
        futureSegmentCoords |-> << >>]
  ELSE [activeSegmentCoords |->
          slice(fullCoords(geo.route), prevIdx(idx), currentIdx(idx) + 1),
        futureSegmentCoords |->
          slice(fullCoords(geo.route), currentIdx(idx) + 1, Len(geo.route))]

\* The segment useMemo of a render with schedule `sched` and
\* currentStopIndex `idx` < binSequence.length: without a schedule both
\* segments are empty, with bare bin ids the whole route is active.
Segments(sched, idx) ==
  IF ~sched.loaded
  THEN [activeSegmentCoords |-> << >>, futureSegmentCoords |-> << >>]
  ELSE IF ~sched.populated
  THEN [activeSegmentCoords |-> fullCoords(geo.route),
        futureSegmentCoords |-> << >>]
  ELSE [activeSegmentCoords |->
          slice(fullCoords(geo.route), prevIdx(idx), currentIdx(idx) + 1),
        futureSegmentCoords |->
          slice(fullCoords(geo.route), currentIdx(idx), Len(geo.route))]

\* The segments of the render on screen.
activeSegmentCoords ==
  Segments(view.schedule, view.currentStopIndex).activeSegmentCoords

futureSegmentCoords ==
  Segments(view.schedule, view.currentStopIndex).futureSegmentCoords

\* {schedule.status === 'scheduled' && !activeCollection && (<FAB/>)}
StartFabShown ==
  /\ ScreenShown
  /\ view.schedule.status = "scheduled"
  /\ ~view.activeCollection

\* "Mark as Collected" button of the current stop card.
MarkButtonShown ==
  /\ ScreenShown
  /\ view.activeCollection
  /\ ~view.allBinsCollected
  /\ view.currentStopIndex < numStops
  /\ view.schedule.populated

\* Variant: the card with "Finish Route" is shown for every active
\* collection, whether or not all bins are collected.
FinishButtonShownWhileCollecting ==
  /\ ScreenShown
  /\ view.activeCollection

\* "Finish Route" button of the all-collected card.
FinishButtonShown ==
  /\ ScreenShown
  /\ view.activeCollection
  /\ view.allBinsCollected

\* A bin marker is drawn for every populated bin of binSequence.
MarkerShown(i) ==
  /\ ScreenShown
  /\ view.schedule.populated
  /\ i \in 0..(numStops - 1)

\* The stop list replaces the collection card when no collection is active.
StopItemShown(i) ==
  /\ ScreenShown
  /\ ~view.activeCollection
  /\ view.schedule.populated
  /\ i \in 0..(numStops - 1)

\* ------------------------------------------------------------ REST calls
\* An async handler suspended at an await: which handler, which await,
\* the schedule its closure holds, and (history only) the session state
\* at the press.
Call(op, stage, closure, pre) ==
  [op |-> op, stage |-> stage, closure |-> closure, pre |-> pre]

RemoveAt(s, i) == [j \in 1..(Len(s) - 1) |-> IF j < i THEN s[j] ELSE s[j + 1]]

ReplaceAt(s, i, c) == [s EXCEPT ![i] = c]

Pre ==
  [activeCollection |-> activeCollection,
   currentStopIndex |-> currentStopIndex,
   allBinsCollected |-> allBinsCollected,
   schedule |-> schedule]

\* What `await getScheduleById(id, token)` can resolve to: the schedule as
\* it is on the backend, bins populated (populateBins=true), with or
\* without a completedBins array; or the request throws.
getScheduleById ==
  { [ok |-> TRUE, status |-> remoteStatus, populated |-> TRUE,
     hasCompletedBins |-> TRUE, completedBins |-> cb] :
       cb \in CollectedPrefixes(numStops) }
  \cup
  { [ok |-> TRUE, status |-> remoteStatus, populated |-> TRUE,
     hasCompletedBins |-> FALSE, completedBins |-> << >>] }
  \cup
  { [ok |-> FALSE, status |-> remoteStatus, populated |-> FALSE,
     hasCompletedBins |-> FALSE, completedBins |-> << >>] }

\* What `await updateScheduleStatus(id, status, token)` can resolve to:
\* the backend stores the status and answers with response.data.schedule,
\* whose bins may be bare ids; or the request throws and nothing is stored.
updateScheduleStatus(status) ==
  { [ok |-> TRUE, status |-> status, populated |-> pop] : pop \in BOOLEAN }
  \cup
  { [ok |-> FALSE, status |-> remoteStatus, populated |-> FALSE] }

\* ------------------------------------------------------------------ Init
\* The screen has mounted and the effect has called loadScheduleDetails:
\* without a token it returned at once, otherwise getScheduleById is in
\* flight.
Init ==
  /\ token \in BOOLEAN
  /\ numStops \in 0..MaxStops
  /\ geo = StraightRoad(numStops)
  /\ remoteStatus \in Statuses
  /\ calls = IF token
             THEN << Call("load", "fetch", NoSchedule, NoPre) >>
             ELSE << >>
  /\ loading = TRUE
  /\ schedule = NoSchedule
  /\ currentStopIndex = 0
  /\ completedStops = EmptyBag
  /\ allBinsCollected = FALSE
  /\ activeCollection = FALSE
  /\ view = [loading |-> TRUE, schedule |-> NoSchedule,
             currentStopIndex |-> 0, completedStops |-> EmptyBag,
             allBinsCollected |-> FALSE, activeCollection |-> FALSE]
  /\ alert = "none"
  /\ presses = 0
  /\ crashed = FALSE

\* ---------------------------------------------------------------- backend
\* The schedule is cancelled on the backend by someone else.
ExternalCancel ==
  /\ Idle
  /\ remoteStatus \in {"scheduled", "in-progress"}
  /\ remoteStatus' = "cancelled"
  /\ UNCHANGED << token, numStops, geo, calls, loading, schedule, session, view,
                  alert, presses, crashed >>

\* ----------------------------------------------------------- the screen
\* A state update is rendered: the handlers of the new render close over
\* the current values.  A render that throws takes the screen down.
Render ==
  /\ ~crashed
  /\ ~Idle
  /\ presses' = 0
  /\ IF RenderThrows
     THEN crashed' = TRUE /\ UNCHANGED view
     ELSE view' = CurrentView /\ UNCHANGED crashed
  /\ UNCHANGED << backend, calls, loading, schedule, session, alert >>

\* loadScheduleDetails from `await getScheduleById(scheduleId, token)` on.
loadScheduleDetails(i) ==
  /\ ~crashed
  /\ Idle
  /\ i \in 1..Len(calls)
  /\ calls[i].op = "load"
  /\ calls' = RemoveAt(calls, i)
  /\ loading' = FALSE
  /\ \E scheduleData \in getScheduleById :
       IF scheduleData.ok
       THEN /\ schedule' = [loaded |-> TRUE, status |-> scheduleData.status,
                            populated |-> scheduleData.populated]
            /\ completedStops' = IF scheduleData.hasCompletedBins
                                 THEN BagOfArray(scheduleData.completedBins)
                                 ELSE completedStops
            /\ activeCollection' = IF scheduleData.status = "in-progress"
                                   THEN TRUE
                                   ELSE activeCollection
            /\ UNCHANGED alert
       ELSE /\ alert' = "Failed to load schedule information"
            /\ UNCHANGED << schedule, completedStops, activeCollection >>
  /\ UNCHANGED << backend, currentStopIndex, allBinsCollected,
                  view, presses, crashed >>

\* Variant: the guard only stops a finished or cancelled schedule.
StartRejectedOnlyWhenOver(sched) ==
  sched.status \in {"completed", "cancelled"}

\* if (schedule.status !== 'scheduled') { Alert...; return; }
StartRejected(sched) == sched.status # "scheduled"

\* handleStartCollection is invoked: by the FAB, which is only there for
\* a scheduled, not yet active schedule, or on a schedule that is not
\* 'scheduled', which is the case the guard of the handler is written for.
StartInvoked == StartFabShown \/ view.schedule.status # "scheduled"

\* focusOnStop(stopIndex) of the render with schedule `sched` gets past its
\* two early returns and sets the current stop.
focusOnStop(sched, stopIndex) ==
  /\ sched.loaded
  /\ MapRefCurrent
  /\ stopIndex < numStops
  /\ sched.populated

\* Variant: the press does not empty completedStops.
handleStartCollectionKeepingStops ==
  /\ ScreenShown
  /\ Pressable
  /\ presses' = presses + 1
  /\ StartInvoked
  /\ view.schedule.loaded /\ token
  /\ IF StartRejected(view.schedule)
     THEN /\ alert' = "Cannot Start Collection"
          /\ UNCHANGED << calls, session >>
     ELSE /\ Len(calls) < MaxCalls
          /\ activeCollection' = TRUE
          /\ allBinsCollected' = FALSE
          /\ currentStopIndex' = 0
          /\ calls' = Append(calls,
                             Call("start", "update", view.schedule, Pre))
          /\ UNCHANGED << alert, completedStops >>
  /\ UNCHANGED << backend, loading, schedule, view, crashed >>

\* handleStartCollection up to its first await.
handleStartCollection ==
  /\ ScreenShown
  /\ Pressable
  /\ presses' = presses + 1
  /\ StartInvoked
  /\ view.schedule.loaded /\ token
  /\ IF StartRejected(view.schedule)
     THEN /\ alert' = "Cannot Start Collection"
          /\ UNCHANGED << calls, session >>
     ELSE /\ Len(calls) < MaxCalls
          /\ activeCollection' = TRUE
          /\ completedStops' = EmptyBag
          /\ allBinsCollected' = FALSE
          /\ currentStopIndex' = 0
          /\ calls' = Append(calls,
                             Call("start", "update", view.schedule, Pre))
          /\ UNCHANGED alert
  /\ UNCHANGED << backend, loading, schedule, view, crashed >>

\* handleStartCollection from `await updateScheduleStatus(...)` to the
\* next await or the catch.
handleStartCollectionUpdated(i) ==
  /\ ~crashed
  /\ Idle
  /\ i \in 1..Len(calls)
  /\ calls[i].op = "start"
  /\ calls[i].stage = "update"
  /\ \E r \in updateScheduleStatus("in-progress") :
       IF r.ok
       THEN /\ remoteStatus' = r.status
            /\ ~r.populated      \* the returned schedule is not read
            /\ calls' = ReplaceAt(calls, i, [calls[i] EXCEPT !.stage = "fetch"])
            /\ UNCHANGED alert
       ELSE /\ alert' = "Failed to start collection"
            /\ calls' = RemoveAt(calls, i)
            /\ UNCHANGED remoteStatus
  /\ UNCHANGED << token, numStops, geo, loading, schedule, session,
                  view, presses, crashed >>

\* handleStartCollection from `await getScheduleById(...)` to its end.
handleStartCollectionRefreshed(i) ==
  /\ ~crashed
  /\ Idle
  /\ i \in 1..Len(calls)
  /\ calls[i].op = "start"
  /\ calls[i].stage = "fetch"
  /\ calls' = RemoveAt(calls, i)
  /\ \E refreshed \in getScheduleById :
       /\ ~refreshed.hasCompletedBins   \* completedBins is not read here
       /\ IF refreshed.ok
          THEN /\ schedule' = [loaded |-> TRUE, status |-> refreshed.status,
                               populated |-> refreshed.populated]
               /\ currentStopIndex' = IF focusOnStop(calls[i].closure, 0)
                                      THEN 0
                                      ELSE currentStopIndex
               /\ alert' = "Collection Started"
          ELSE /\ alert' = "Failed to start collection"
               /\ UNCHANGED << schedule, currentStopIndex >>
  /\ UNCHANGED << backend, loading, completedStops, allBinsCollected,
                  activeCollection, view, presses, crashed >>

\* Variant: the id recorded is that of the bin after the current one.
markBinCollectedNextBin ==
  /\ MarkButtonShown
  /\ Pressable
  /\ presses' = presses + 1
  /\ view.schedule.loaded
  /\ BagCardinality(completedStops) < MaxCompleted
  /\ completedStops' = completedStops (+) SetToBag({view.currentStopIndex + 1})
  /\ LET prevIndex == currentStopIndex
         nextIndex == prevIndex + 1
     IN IF nextIndex < numStops
        THEN /\ currentStopIndex' = nextIndex
             /\ UNCHANGED allBinsCollected
        ELSE /\ allBinsCollected' = TRUE
             /\ UNCHANGED currentStopIndex
  /\ UNCHANGED << backend, calls, loading, schedule, activeCollection, view,
                  alert, crashed >>

\* markBinCollected: the bin is read from the render's currentStopIndex,
\* both updates are functional.
markBinCollected ==
  /\ MarkButtonShown
  /\ Pressable
  /\ presses' = presses + 1
  /\ view.schedule.loaded
  /\ BagCardinality(completedStops) < MaxCompleted
  /\ completedStops' = IF view.currentStopIndex < numStops
                       THEN completedStops (+) SetToBag({view.currentStopIndex})
                       ELSE completedStops
  /\ LET prevIndex == currentStopIndex
         nextIndex == prevIndex + 1
     IN IF nextIndex < numStops
        THEN /\ currentStopIndex' = nextIndex
             /\ UNCHANGED allBinsCollected
        ELSE /\ allBinsCollected' = TRUE
             /\ UNCHANGED currentStopIndex
  /\ UNCHANGED << backend, calls, loading, schedule, activeCollection, view,
                  alert, crashed >>

\* Variant: the marker press jumps whether or not a collection is active.
MarkerOnPressAlwaysJumps(index) ==
  /\ MarkerShown(index)
  /\ Pressable
  /\ presses' = presses + 1
  /\ currentStopIndex' = index
  /\ UNCHANGED << backend, calls, loading, schedule, completedStops,
                  allBinsCollected, activeCollection, view, alert, crashed >>

\* onPress of the marker of bin `index`.
MarkerOnPress(index) ==
  /\ MarkerShown(index)
  /\ Pressable
  /\ presses' = presses + 1
  /\ currentStopIndex' = IF view.activeCollection
                         THEN index
                         ELSE currentStopIndex
  /\ UNCHANGED << backend, calls, loading, schedule, completedStops,
                  allBinsCollected, activeCollection, view, alert, crashed >>

\* onPress of the stop list item of bin `index`.
StopItemOnPress(index) ==
  /\ StopItemShown(index)
  /\ Pressable
  /\ presses' = presses + 1
  /\ UNCHANGED << backend, calls, loading, schedule, session, view, alert,
                  crashed >>

\* onPress of "Finish Route" up to its await.
FinishRouteOnPress ==
  /\ FinishButtonShown
  /\ Pressable
  /\ presses' = presses + 1
  /\ view.schedule.loaded /\ token
  /\ Len(calls) < MaxCalls
  /\ calls' = Append(calls, Call("finish", "update", NoSchedule, NoPre))
  /\ UNCHANGED << backend, loading, schedule, session, view,
                  alert, crashed >>

\* Variant: the collection UI is left in a `finally`, also when the
\* update throws.
FinishRouteResumeLeavingCollection(i) ==
  /\ ~crashed
  /\ Idle
  /\ i \in 1..Len(calls)
  /\ calls[i].op = "finish"
  /\ calls' = RemoveAt(calls, i)
  /\ activeCollection' = FALSE
  /\ \E updated \in updateScheduleStatus("completed") :
       IF updated.ok
       THEN /\ remoteStatus' = updated.status
            /\ schedule' = [loaded |-> TRUE, status |-> updated.status,
                            populated |-> updated.populated]
            /\ UNCHANGED alert
       ELSE /\ alert' = "Failed to complete schedule"
            /\ UNCHANGED << remoteStatus, schedule >>
  /\ UNCHANGED << token, numStops, geo, loading, currentStopIndex,
                  completedStops, allBinsCollected, view, presses, crashed >>

\* onPress of "Finish Route" from `await updateScheduleStatus(...)` on.
FinishRouteResume(i) ==
  /\ ~crashed
  /\ Idle
  /\ i \in 1..Len(calls)
  /\ calls[i].op = "finish"
  /\ calls' = RemoveAt(calls, i)
  /\ \E updated \in updateScheduleStatus("completed") :
       IF updated.ok
       THEN /\ remoteStatus' = updated.status
            /\ schedule' = [loaded |-> TRUE, status |-> updated.status,
                            populated |-> updated.populated]
            /\ activeCollection' = FALSE
            /\ UNCHANGED alert
       ELSE /\ alert' = "Failed to complete schedule"
            /\ UNCHANGED << remoteStatus, schedule, activeCollection >>
  /\ UNCHANGED << token, numStops, geo, loading, currentStopIndex,
                  completedStops, allBinsCollected, view, presses, crashed >>

\* The user closes the dialog.
DismissAlert ==
  /\ ~crashed
  /\ alert # "none"
  /\ alert' = "none"
  /\ UNCHANGED << backend, calls, loading, schedule, session,
                  view, presses, crashed >>

\* ------------------------------------------------------------------ Next
Next ==
  \/ ExternalCancel
  \/ Render
  \/ \E i \in 1..MaxCalls : loadScheduleDetails(i)
  \/ handleStartCollection
  \/ \E i \in 1..MaxCalls : handleStartCollectionUpdated(i)
  \/ \E i \in 1..MaxCalls : handleStartCollectionRefreshed(i)
  \/ markBinCollected
  \/ \E index \in 0..(MaxStops - 1) : MarkerOnPress(index)
  \/ \E index \in 0..(MaxStops - 1) : StopItemOnPress(index)
  \/ FinishRouteOnPress
  \/ \E i \in 1..MaxCalls : FinishRouteResume(i)
  \/ DismissAlert

Spec == Init /\ [][Next]_vars

\* ------------------------------------------------- the segments by input
\* The collection of an 'in-progress' schedule right after its load, and
\* after a tap on the marker of stop idx when idx > 0, for every route and
\* every location of the two bins the segment useMemo reads (the other
\* bins are at [0,0]).  The depot end is the end of the route; the depot
\* start is any point on the first stop and the start of the route later.
MemoInit ==
  /\ token = TRUE
  /\ numStops \in 1..MaxStops
  /\ remoteStatus = "in-progress"
  /\ calls = << >>
  /\ loading = FALSE
  /\ schedule = [loaded |-> TRUE, status |-> "in-progress",
                 populated |-> TRUE]
  /\ currentStopIndex \in 0..(numStops - 1)
  /\ \E route \in Routes, current \in Coords, prev \in Coords :
       geo = [route |-> route,
              bins |-> [i \in 1..numStops |->
                          IF i = currentStopIndex + 1 THEN current
                          ELSE IF i = currentStopIndex THEN prev
                          ELSE << 0, 0 >>],
              startLocation |-> IF currentStopIndex = 0 THEN prev
                                ELSE route[1],
              endLocation |-> route[Len(route)]]
  /\ completedStops = EmptyBag
  /\ allBinsCollected = FALSE
  /\ activeCollection = TRUE
  /\ view = IF currentStopIndex = 0
            THEN [loading |-> TRUE, schedule |-> NoSchedule,
                  currentStopIndex |-> 0, completedStops |-> EmptyBag,
                  allBinsCollected |-> FALSE, activeCollection |-> FALSE]
            ELSE [CurrentView EXCEPT !.currentStopIndex = 0]
  /\ alert = "none"
  /\ presses = IF currentStopIndex = 0 THEN 0 ELSE 1
  /\ crashed = FALSE

MemoNext == Render

MemoSpec == MemoInit /\ [][MemoNext]_vars

\* ----------------------------------------------------------- type check
TypeOK ==
  /\ token \in BOOLEAN
  /\ numStops \in 0..MaxStops
  /\ remoteStatus \in Statuses
  /\ Len(calls) <= MaxCalls
  /\ loading \in BOOLEAN
  /\ schedule.status \in Statuses
  /\ currentStopIndex \in 0..MaxStops
  /\ BagCardinality(completedStops) <= MaxCompleted
  /\ allBinsCollected \in BOOLEAN
  /\ activeCollection \in BOOLEAN
  /\ presses \in 0..MaxBurst
  /\ crashed \in BOOLEAN

\* ------------------------------------------------------- helper formulas
\* Call i is a suspended handleStartCollection / "Finish Route" handler.
IsStart(i) == calls[i].op = "start"

IsFinish(i) == calls[i].op = "finish"

\* A status update or re-fetch of start or finish is outstanding.
PersistencePending == \E i \in 1..Len(calls) : IsStart(i) \/ IsFinish(i)

\* This step is the catch block of handleStartCollection for call i.
StartFailedStep(i) ==
  /\ IsStart(i)
  /\ calls' = RemoveAt(calls, i)
  /\ alert' = "Failed to start collection"

\* This step ends the "Finish Route" handler of call i.
FinishEndedStep(i) ==
  /\ IsFinish(i)
  /\ calls' = RemoveAt(calls, i)

\* This step suspends a new handler of kind op at its await.
CallAdded(op) ==
  /\ Len(calls') = Len(calls) + 1
  /\ calls'[Len(calls')].op = op

\* This step handles a press.
PressStep == presses' = presses + 1

\* ---------------------------------------------------------------- claims

\* C1: when the status update or the re-fetch of 'start collection' fails,
\* local state is what it was before the press: the session-active flag,
\* currentStopIndex, allBinsCollected and the cached schedule have the
\* values the press found, so the schedule is still 'scheduled' and not
\* active and the FAB is offered again.
C1_StartFailureRestoresState ==
  [][\A i \in 1..Len(calls) :
       StartFailedStep(i) =>
         /\ activeCollection' = calls[i].pre.activeCollection
         /\ currentStopIndex' = calls[i].pre.currentStopIndex
         /\ allBinsCollected' = calls[i].pre.allBinsCollected
         /\ schedule' = calls[i].pre.schedule
         /\ schedule'.status = "scheduled" /\ ~activeCollection']_vars

\* C2: the session is never active locally while the status update of
\* 'start collection' is still pending.
C2_NotActiveWhileUpdatePending ==
  \A i \in 1..Len(calls) :
    (IsStart(i) /\ calls[i].stage = "update") => ~activeCollection

\* C3: a 'start collection' issued while the cached schedule status is not
\* 'scheduled' sends no request and leaves the schedule, the session state
\* and the backend untouched.
C3_StartRejectedUnlessScheduled ==
  [][(handleStartCollection /\ schedule.status # "scheduled") =>
       /\ calls' = calls
       /\ UNCHANGED << schedule, session, remoteStatus >>]_vars

\* C3 witness: the handler was invoked on a schedule that is not
\* 'scheduled' and answered with its rejection dialog.
C3_Witness ==
  /\ schedule.loaded
  /\ schedule.status # "scheduled"
  /\ alert = "Cannot Start Collection"

\* C4: the 'completed' update is only requested by "Finish Route" while
\* allBinsCollected is true, and the backend status only moves to
\* 'completed' while allBinsCollected is true.
C4_CompletedOnlyWhenAllCollected ==
  [][/\ CallAdded("finish") => (allBinsCollected /\ allBinsCollected')
     /\ (remoteStatus # "completed" /\ remoteStatus' = "completed") =>
          /\ allBinsCollected
          /\ \E i \in 1..Len(calls) : FinishEndedStep(i)]_vars

\* C4 witness: a route whose bins were all collected has been finished.
C4_Witness ==
  /\ schedule.loaded
  /\ schedule.status = "completed"
  /\ remoteStatus = "completed"
  /\ allBinsCollected
  /\ ~activeCollection

\* C5: a "Finish Route" whose update did not store 'completed' leaves the
\* cached schedule and the session state as they were (so the button is
\* still there), and the cached status only becomes 'completed' in a step
\* after which the backend status is 'completed'.
C5_FinishFailureKeepsState ==
  [][/\ \A i \in 1..Len(calls) :
          (FinishEndedStep(i) /\ remoteStatus' # "completed") =>
            UNCHANGED << schedule, session >>
     /\ (schedule'.status = "completed" /\ schedule' # schedule) =>
          remoteStatus' = "completed"]_vars

\* C5 witness: the update of "Finish Route" failed, the schedule is not
\* shown as completed and the button is still offered.
C5_Witness ==
  /\ alert = "Failed to complete schedule"
  /\ schedule.status # "completed"
  /\ remoteStatus # "completed"
  /\ activeCollection
  /\ allBinsCollected

\* C6: while a call of start or finish is outstanding, no press on the
\* rendered screen changes the session state or issues a further call.
C6_NoPressTakesEffectWhilePending ==
  [][(PersistencePending /\ Idle /\ PressStep) =>
       UNCHANGED << session, calls >>]_vars

\* C7: the 'completed' update is never issued while the backend status is
\* still 'scheduled', and the backend status never goes from 'scheduled'
\* straight to 'completed'.
C7_NoScheduledToCompleted ==
  [][/\ CallAdded("finish") => remoteStatus # "scheduled"
     /\ ~(remoteStatus = "scheduled" /\ remoteStatus' = "completed")]_vars

\* C8: once the cached status is 'completed' or 'cancelled', the screen
\* shows it and no call is outstanding, no step changes the status and no
\* status update is requested.
C8_TerminalStatusIsFinal ==
  [][(/\ schedule.loaded
      /\ schedule.status \in {"completed", "cancelled"}
      /\ Idle
      /\ calls = << >>) =>
       /\ schedule'.status = schedule.status
       /\ ~CallAdded("start")
       /\ ~CallAdded("finish")]_vars

\* C9: in an active session with allBinsCollected false,
\* 0 <= currentStopIndex < stops.length.
C9_CurrentStopInRange ==
  (schedule.loaded /\ activeCollection /\ ~allBinsCollected) =>
    (0 <= currentStopIndex /\ currentStopIndex < numStops)

\* C10: completedStops never has more entries than the schedule has stops.
C10_CompletedAtMostStops ==
  schedule.loaded => BagCardinality(completedStops) <= numStops

\* The stop tracker part of the session state.
tracker == << currentStopIndex, completedStops, allBinsCollected >>

\* This step is a handleStartCollection that got past its guards.
StartAccepted == handleStartCollection /\ CallAdded("start")

\* C11: a markBinCollected taken while allBinsCollected is already true
\* changes neither currentStopIndex nor completedStops nor
\* allBinsCollected.
C11_MarkWhenAllDoneIsNoOp ==
  [][(markBinCollected /\ allBinsCollected) => UNCHANGED tracker]_vars

SegmentsRendered ==
  /\ ViewClean
  /\ ~crashed
  /\ view.schedule.loaded /\ view.schedule.populated
  /\ view.currentStopIndex < numStops

\* arr is a run of consecutive points of the polyline.
IsSubRange(arr, polyline) ==
  \E i \in 1..Len(polyline) : \E j \in i..Len(polyline) :
    arr = SubSeq(polyline, i, j)

\* C14: the active segment is not empty, it ends on the point the future
\* segment starts with, and the two segments joined on that one shared
\* point are a run of consecutive points of the route polyline.
C14_SegmentsShareThePivot ==
  SegmentsRendered =>
    LET active == activeSegmentCoords
        future == futureSegmentCoords
    IN /\ active # << >>
       /\ future # << >>
       /\ active[Len(active)] = future[1]
       /\ IsSubRange(active \o Tail(future), fullCoords(geo.route))

\* C15: on a non-empty polyline findClosestIndex returns an index of the
\* polyline, no point of the polyline is closer to the query, and no point
\* at a smaller index is as close.
C15_ClosestIndexIsFirstMinimum ==
  \A q \in Coords :
    LET i == findClosestIndex(geo.route, q)
        d == Dist2(geo.route[i + 1], q)
    IN /\ i \in 0..(Len(geo.route) - 1)
       /\ \A k \in 1..Len(geo.route) : Dist2(geo.route[k], q) >= d
       /\ \A k \in 1..i : Dist2(geo.route[k], q) > d

\* C15 witness: the render looked up a stop that two points of the
\* polyline are equally close to, and got the first of them.
C15_Witness ==
  /\ SegmentsRendered
  /\ view.currentStopIndex = 1
  /\ LET q == geo.bins[2]
         i == currentIdx(1)
     IN /\ \E k \in (i + 2)..Len(geo.route) :
             Dist2(geo.route[k], q) = Dist2(geo.route[i + 1], q)
        /\ geo.route[i + 1] # q
        /\ Len(futureSegmentCoords) = Len(geo.route) - i

\* The schedule is the four-point road with stops on its two inner points.
ScenarioRoad ==
  /\ geo.route = << << 0, 0 >>, << 0, 1 >>, << 0, 2 >>, << 0, 3 >> >>
  /\ geo.bins = << << 0, 1 >>, << 0, 2 >> >>
  /\ geo.startLocation = << 0, 0 >>
  /\ geo.endLocation = << 0, 3 >>
  /\ numStops = 2

\* The points route[from..to] of the polyline, both ends included.
RoutePoints(from, to) == SubSeq(fullCoords(geo.route), from + 1, to + 1)

\* The segments the render after this step computes.
SegmentsAfterStep(active, future) ==
  Segments(schedule', currentStopIndex') =
    [activeSegmentCoords |-> active, futureSegmentCoords |-> future]

\* C16: on the road [[0,0],[0,1],[0,2],[0,3]] with stops at [0,1] and
\* [0,2], each step taken on the screen the previous step rendered: start
\* gives currentStopIndex = 0, active = route[0..1], future = route[1..3];
\* the first mark gives currentStopIndex = 1, completedStops = {stop0},
\* active = route[1..2], future = route[2..3]; the second mark gives
\* allBinsCollected and completedStops = {stop0, stop1}.
C16_TwoStopScenario ==
  [][(ScenarioRoad /\ Idle) =>
       /\ StartAccepted =>
            /\ currentStopIndex' = 0
            /\ SegmentsAfterStep(RoutePoints(0, 1), RoutePoints(1, 3))
       /\ (/\ markBinCollected
           /\ currentStopIndex = 0
           /\ completedStops = EmptyBag
           /\ ~allBinsCollected) =>
            /\ currentStopIndex' = 1
            /\ completedStops' = SetToBag({0})
            /\ ~allBinsCollected'
            /\ SegmentsAfterStep(RoutePoints(1, 2), RoutePoints(2, 3))
       /\ (/\ markBinCollected
           /\ currentStopIndex = 1
           /\ completedStops = SetToBag({0})
           /\ ~allBinsCollected) =>
            /\ allBinsCollected'
            /\ completedStops' = SetToBag({0, 1})]_vars

\* C16 witness: the scenario has been played to its end, the press on
\* start being still in flight.
C16_Witness ==
  /\ ScenarioRoad
  /\ \E i \in 1..Len(calls) : IsStart(i)
  /\ ViewClean
  /\ currentStopIndex = 1
  /\ completedStops = SetToBag({0, 1})
  /\ allBinsCollected
  /\ futureSegmentCoords = RoutePoints(2, 3)

\* C17: once the screen shows a schedule it has seen as 'cancelled', no
\* press changes currentStopIndex, completedStops or allBinsCollected.
C17_CancelledStopsTracking ==
  [][(/\ Idle
      /\ schedule.loaded
      /\ schedule.status = "cancelled"
      /\ PressStep) => UNCHANGED tracker]_vars

\* The ids of the first k stops.
FirstStops(k) == 0..(k - 1)

\* C18: a markBinCollected taken while allBinsCollected is false adds the
\* id of the stop currentStopIndex is on to completedStops, and then
\* either moves currentStopIndex on by one, allBinsCollected staying
\* false, when a next stop exists, or keeps currentStopIndex and sets
\* allBinsCollected on the last stop.
C18_MarkRecordsCurrentStop ==
  [][(markBinCollected /\ ~allBinsCollected) =>
       /\ completedStops' = completedStops (+) SetToBag({currentStopIndex})
       /\ IF currentStopIndex + 1 < numStops
          THEN currentStopIndex' = currentStopIndex + 1
               /\ ~allBinsCollected'
          ELSE currentStopIndex' = currentStopIndex
               /\ allBinsCollected']_vars

\* C19: counted from a start on n >= 1 stops, with no jump in between,
\* the k-th mark leaves currentStopIndex = k, the first k ids in
\* completedStops and allBinsCollected false while k < n, and the n-th
\* mark leaves allBinsCollected true with exactly the n ids.
C19_MarksReachAllCollected ==
  [][/\ StartAccepted =>
          currentStopIndex' = 0 /\ BagToSet(completedStops') = FirstStops(0)
          /\ ~allBinsCollected'
     /\ (/\ markBinCollected
         /\ numStops >= 1
         /\ ~allBinsCollected
         /\ BagToSet(completedStops) = FirstStops(currentStopIndex)) =>
          /\ BagToSet(completedStops') = FirstStops(currentStopIndex + 1)
          /\ IF currentStopIndex + 1 < numStops
             THEN currentStopIndex' = currentStopIndex + 1
                  /\ ~allBinsCollected'
             ELSE allBinsCollected']_vars

\* The polyline index the rendered future segment starts at.
PivotIndex == Len(geo.route) - Len(futureSegmentCoords)

\* The render has computed the segments with all bins collected.
AllCollectedRendered == SegmentsRendered /\ view.allBinsCollected

\* C20 as stated: with allBinsCollected true the segments are split at
\* the polyline index nearest to the depot end.
C20_PivotIsDepotEnd ==
  AllCollectedRendered =>
    PivotIndex = findClosestIndex(geo.route, geo.endLocation)

\* C20: with allBinsCollected true the segments are still split at the
\* polyline index nearest to the stop currentStopIndex is on, as they
\* are mid-route: the future segment runs from that index to the end of
\* the route and the active segment ends on it.
C20_PivotStaysOnCurrentStop ==
  AllCollectedRendered =>
    LET stop == geo.bins[view.currentStopIndex + 1]
        last == Len(geo.route) - 1
        pivot == PivotIndex
        active == activeSegmentCoords
        future == futureSegmentCoords
    IN /\ pivot = findClosestIndex(geo.route, stop)
       /\ future = RoutePoints(pivot, last)
       /\ active # << >> => active[Len(active)] = future[1]

\* C20 witness: both stops of the road are collected and the rendered
\* segments are split at the last stop, one point before the depot end.
C20_Witness ==
  /\ AllCollectedRendered
  /\ ScenarioRoad
  /\ view.currentStopIndex = 1
  /\ BagToSet(completedStops) = {0, 1}
  /\ PivotIndex = 2
  /\ findClosestIndex(geo.route, geo.endLocation) = 3

\* The points of the polyline from index `from` to index `to`, none when
\* `from` is past `to`.
RouteRun(from, to) == IF from <= to THEN RoutePoints(from, to) ELSE << >>

\* C21 as stated: on the first stop the active segment starts at the
\* polyline index nearest to the depot start, on a later stop at the index
\* nearest to the previous stop, and it ends on the pivot.
C21_ActiveStartsAtDepotStart ==
  SegmentsRendered =>
    LET idx == view.currentStopIndex
        pivotIndex == findClosestIndex(geo.route, geo.bins[idx + 1])
        refIndex == IF idx = 0
                    THEN findClosestIndex(geo.route, geo.startLocation)
                    ELSE findClosestIndex(geo.route, geo.bins[idx])
    IN activeSegmentCoords = RouteRun(refIndex, pivotIndex)

\* C21: on the first stop the active segment starts at polyline index 0,
\* the start of the route, on a later stop at the index nearest to the
\* previous stop, and it ends on the pivot.
C21_ActiveStartsAtRouteStart ==
  SegmentsRendered =>
    LET idx == view.currentStopIndex
        pivotIndex == findClosestIndex(geo.route, geo.bins[idx + 1])
        refIndex == IF idx = 0
                    THEN 0
                    ELSE findClosestIndex(geo.route, geo.bins[idx])
    IN activeSegmentCoords = RouteRun(refIndex, pivotIndex)

\* C21 witness: the first stop is rendered on a route whose first point is
\* not the nearest to the depot start, and the active segment starts with
\* the first point and has another one.
C21_Witness ==
  /\ SegmentsRendered
  /\ view.currentStopIndex = 0
  /\ findClosestIndex(geo.route, geo.startLocation) > 0
  /\ Len(activeSegmentCoords) > 1
  /\ activeSegmentCoords[1] = LatLng(geo.route[1])

\* C22: a tap on the marker of stop `index` of a screen that shows an
\* active collection sets currentStopIndex to index, whichever stop was
\* current, and leaves completedStops and allBinsCollected unchanged; a
\* tap on a marker or on a stop list item of a screen that shows no
\* active collection leaves currentStopIndex unchanged too.
C22_SelectStopJumps ==
  [][\A index \in 0..(MaxStops - 1) :
       /\ MarkerOnPress(index) =>
            /\ index < numStops
            /\ currentStopIndex' = IF view.activeCollection
                                   THEN index
                                   ELSE currentStopIndex
            /\ UNCHANGED << completedStops, allBinsCollected >>
       /\ StopItemOnPress(index) =>
            ~view.activeCollection /\ UNCHANGED tracker]_vars

\* C22 witness: with nothing collected a tap has moved the collection
\* from stop 0 straight to stop 1.
C22_Witness ==
  /\ activeCollection /\ view.activeCollection
  /\ completedStops = EmptyBag
  /\ ~allBinsCollected
  /\ view.currentStopIndex = 0
  /\ currentStopIndex = 1
  /\ presses = 1

\* C23: whenever allBinsCollected is true, every stop of the schedule is
\* in completedStops.
C23_AllCollectedMeansEveryStop ==
  allBinsCollected =>
    \A id \in 0..(numStops - 1) : id \in BagToSet(completedStops)

\* C24: the collection is active only while the cached schedule status
\* is 'in-progress'.
C24_ActiveOnlyInProgress ==
  activeCollection => schedule.loaded /\ schedule.status = "in-progress"

\* One markBinCollected has been handled since the last render, and it
\* moved currentStopIndex on to the next stop.
OneMarkSinceRender ==
  /\ presses = 1
  /\ ~allBinsCollected
  /\ currentStopIndex = view.currentStopIndex + 1
  /\ completedStops =
       view.completedStops (+) SetToBag({view.currentStopIndex})

\* C25: a second markBinCollected handled before the screen re-renders
\* adds the id of the stop the first one moved currentStopIndex to, so
\* that the two marks have added two different ids.
C25_BackToBackMarksRecordTwoStops ==
  [][(OneMarkSinceRender /\ markBinCollected) =>
       completedStops' =
         view.completedStops (+) SetToBag({view.currentStopIndex})
                             (+) SetToBag({currentStopIndex})]_vars

\* C26: with no status update or re-fetch of the screen outstanding and
\* the schedule not cancelled from outside, the cached schedule status
\* is the status on the backend.
C26_CachedStatusIsRemoteStatus ==
  (/\ schedule.loaded
   /\ ~PersistencePending
   /\ remoteStatus # "cancelled") => schedule.status = remoteStatus

\* C27: no stop id is in completedStops twice.
C27_NoStopCompletedTwice ==
  \A id \in 0..(MaxStops - 1) : CopiesIn(id, completedStops) <= 1

\* C28: the load of an 'in-progress' schedule with a non-empty
\* completedBins leaves currentStopIndex on a stop that is not in
\* completedStops, or allBinsCollected true.
C28_ResumeOnUncollectedStop ==
  [][\A i \in 1..MaxCalls :
       (/\ loadScheduleDetails(i)
        /\ schedule'.loaded
        /\ schedule'.status = "in-progress"
        /\ completedStops' # EmptyBag) =>
         \/ allBinsCollected'
         \/ ~BagIn(currentStopIndex', completedStops')]_vars

\* C29: when the collection of a schedule with stops is active and
\* completedStops has as many entries as the schedule has stops, which
\* is when the map draws the final segment, allBinsCollected is true.
C29_CompletionNotionsAgree ==
  (/\ schedule.loaded
   /\ activeCollection
   /\ numStops >= 1
   /\ BagCardinality(completedStops) = numStops) => allBinsCollected

\* C30: with an empty binSequence the screen does not fail: the render
\* computes its segments.
C30_EmptyScheduleRenders ==
  numStops = 0 => ~crashed

====
